---- MODULE Spec2Model ----
(***************************************************************************)
(* Model of src/kdumpfile/context.c of libkdumpfile: the life cycle of     *)
(* kdump_ctx_t handles, the reference-counted struct kdump_shared with its *)
(* reader/writer lock, and the per-context slot allocator.                 *)
(***************************************************************************)
EXTENDS Integers, Sequences, FiniteSets, TLC

\* Bounds of the model.
MaxCtx == 2          \* context objects that may ever be handed out
PER_CTX_SLOTS == 2   \* length of per_ctx_size[] and of ctx->data[]
MaxExt == 1          \* outstanding references taken with shared_incref()
MaxGet == 1          \* outstanding references handed out by kdump_get_addrxlat
MaxFaults == 1       \* allocation failures injected into one run

NULL == 0

Ctx == 1 .. MaxCtx
Obj == 1 .. MaxCtx
Handle == 1 .. MaxCtx
Slots == 0 .. (PER_CTX_SLOTS - 1)
Sizes == {0, 1, 2}
\* Buffers the allocator can hand out before it runs out of memory.
MaxBuf == MaxCtx * PER_CTX_SLOTS

\* Values of a buffer pointer: the null pointer, a pointer to a live buffer of
\* sz bytes (malloc hands out a new buffer each time, and the program never
\* copies such a pointer), and the indeterminate value a pointer has once its
\* buffer has been passed to free().
NullPtr == [p |-> "null", sz |-> 0]
Dangling == [p |-> "dangling", sz |-> 0]
BufPtr(sz) == [p |-> "buf", sz |-> sz]

VARIABLES
    ctxs,        \* kdump_ctx_t objects
    shared,      \* struct kdump_shared objects
    dict,        \* attribute dictionaries (reference count only)
    xlat,        \* address-translation domains
    heap,        \* number of live malloc() buffers
    axref,       \* reference counts of the addrxlat_ctx_t handles
    extref,      \* references taken by callers of shared_incref()
    axext,       \* addrxlat_ctx_t references held by callers
    sysext,      \* addrxlat_sys_t references held by callers
    handed,      \* slot numbers returned by per_ctx_alloc, not yet freed
    faults,      \* allocation failures injected so far
    ub,          \* undefined behaviour executed so far
    ret          \* the call that returned last, with its result

vars == <<ctxs, shared, dict, xlat, heap, axref, extref, axext, sysext,
          handed, faults, ub, ret>>

----------------------------------------------------------------------------
\* Small helpers.

Min(S) == CHOOSE x \in S : \A y \in S : x <= y

Reverse(s) == [i \in 1 .. Len(s) |-> s[Len(s) + 1 - i]]

Range(s) == {s[i] : i \in 1 .. Len(s)}

\* list_add(new, head): insert right after the list head.
list_add(c, l) == <<c>> \o l

\* list_del(entry)
list_del(c, l) == SelectSeq(l, LAMBDA x : x # c)

NoData == [s \in Slots |-> NullPtr]

NoCtx == [st |-> "unused", err |-> "none", xlatctx |-> NULL, shared |-> NULL,
          dict |-> NULL, xlat |-> NULL, data |-> NoData, orig |-> NULL]

NoLock == [st |-> "none", rd |-> 0, wr |-> FALSE]

NoShared == [st |-> "none", refcnt |-> 0, ctx |-> <<>>,
             per_ctx_size |-> [s \in Slots |-> 0], lock |-> NoLock, nfree |-> 0]

NoDict == [st |-> "none", refcnt |-> 0, nfree |-> 0]

NoXlat == [st |-> "none", refcnt |-> 0, ctx |-> <<>>, sysref |-> 0, nfree |-> 0]

NoRet == [op |-> "none", c |-> NULL, r |-> NULL, slot |-> -1, sz |-> 0,
          val |-> NULL, status |-> "", acq |-> <<>>, rel |-> <<>>, n |-> 0,
          mode |-> "none", steps |-> <<>>, h |-> {}, text |-> ""]

----------------------------------------------------------------------------
\* The C library allocator.

\* malloc(sz): fail says that this request returns NULL (out of memory, or a
\* malloc(0) of a C library that answers it with NULL).
Malloc(hp, sz, fail) == IF fail THEN NullPtr ELSE BufPtr(sz)

Grant(hp, p) == hp + 1

\* free(p): a no-op on NULL; passing a pointer that is not allocated is
\* undefined behaviour, which BadFree tells and the caller records in ub.
BadFree(p) == p.p = "dangling"

Free(hp, p) == IF p.p = "buf" THEN hp - 1 ELSE hp

\* What a pointer variable holds once free() has been called on it.
Freed(p) == IF p.p = "null" THEN NullPtr ELSE Dangling

----------------------------------------------------------------------------
\* Fresh objects.

FreshCtxs == {c \in Ctx : ctxs[c].st = "unused"}
FreshObjs == {o \in Obj : shared[o].st = "none" /\ dict[o].st = "none"
                          /\ xlat[o].st = "none"}
FreshHandles == {h \in Handle : axref[h] = 0}

\* References held by callers: on registries, and on translation handles.
RECURSIVE Sum(_, _)
Sum(f, S) == IF S = {} THEN 0
             ELSE LET x == CHOOSE y \in S : TRUE IN f[x] + Sum(f, S \ {x})

ExtRefs == Sum(extref, Obj)
GetRefs == Sum(axext, Handle) + Sum(sysext, Obj)

\* Readers and writers of the rwlock.
CanRdLock(o) == shared[o].st = "live" /\ ~shared[o].lock.wr
CanWrLock(o) == shared[o].st = "live" /\ ~shared[o].lock.wr
                /\ shared[o].lock.rd = 0

\* rwlock_unlock() by a reader or by the writer.
rwlock_unlock(s) == IF s.lock.wr THEN [s EXCEPT !.lock.wr = FALSE]
                    ELSE [s EXCEPT !.lock.rd = @ - 1]

rwlock_rdlock(s) == [s EXCEPT !.lock.rd = @ + 1]

\* Mutant: the writer takes the lock in read mode.
rwlock_wrlock_shared(s) == [s EXCEPT !.lock.rd = @ + 1]

rwlock_wrlock(s) == [s EXCEPT !.lock.wr = TRUE]

\* The mode in which the lock of registry s is held.
LockMode(s) == IF s.lock.wr THEN "wr" ELSE IF s.lock.rd > 0 THEN "rd" ELSE "none"

\* A clone is running on behalf of context c (the caller keeps orig valid).
Cloning(c) == \E d \in Ctx : ctxs[d].st = "attach" /\ ctxs[d].orig = c

\* An allocation may be made to fail / the allocator has n more buffers.
CanFail == faults < MaxFaults
HasMemory(n) == heap + n <= MaxBuf

----------------------------------------------------------------------------
\* alloc_ctx(): calloc, err_init, init_addrxlat.
alloc_ctx(h) == [NoCtx EXCEPT !.err = "init", !.xlatctx = h]

\* What alloc_ctx has acquired and released when it returns, by failure point.
alloc_ctx_acq(f) == IF f = "ctx" THEN <<>>
                    ELSE IF f = "xlatctx" THEN <<"ctx", "err">>
                    ELSE <<"ctx", "err", "xlatctx">>

alloc_ctx_rel(f) == IF f = "xlatctx" THEN <<"err", "ctx">> ELSE <<>>

\* alloc_shared(): calloc, list_init, rwlock_init, refcnt = 1.
alloc_shared == [NoShared EXCEPT !.st = "live", !.refcnt = 1,
                                 !.lock = [st |-> "init", rd |-> 0, wr |-> FALSE]]

alloc_shared_acq(f) == IF f = "shared" THEN <<>>
                       ELSE IF f = "lock" THEN <<"shared">>
                       ELSE <<"shared", "lock">>

alloc_shared_rel(f) == IF f = "lock" THEN <<"shared">> ELSE <<>>

\* shared_free(): unlock, cleanup hooks, caches, rwlock_destroy, free.
shared_free(s) == [s EXCEPT !.st = "freed", !.refcnt = 0,
                            !.lock = [st |-> "destroyed", rd |-> 0, wr |-> FALSE],
                            !.nfree = @ + 1]

\* The fields of the registry that shared_free tests: the cleanup hooks of
\* shared->ops and shared->arch_ops, shared->cache and shared->fcache. The
\* code that sets them is elsewhere; h is the set of those that are set when
\* the registry is destroyed.
Teardown == {"ops", "arch_ops", "cache", "fcache"}

\* Mutant: the caches are released before the cleanup hooks run.
shared_free_steps_caches_first(h) ==
    <<"rwlock_unlock">>
    \o (IF "cache" \in h THEN <<"cache_free">> ELSE <<>>)
    \o (IF "fcache" \in h THEN <<"fcache_decref">> ELSE <<>>)
    \o (IF "ops" \in h THEN <<"ops->cleanup">> ELSE <<>>)
    \o (IF "arch_ops" \in h THEN <<"arch_ops->cleanup">> ELSE <<>>)
    \o <<"rwlock_destroy", "free">>

\* The calls shared_free makes, in order.
shared_free_steps(h) ==
    <<"rwlock_unlock">>
    \o (IF "ops" \in h THEN <<"ops->cleanup">> ELSE <<>>)
    \o (IF "arch_ops" \in h THEN <<"arch_ops->cleanup">> ELSE <<>>)
    \o (IF "cache" \in h THEN <<"cache_free">> ELSE <<>>)
    \o (IF "fcache" \in h THEN <<"fcache_decref">> ELSE <<>>)
    \o <<"rwlock_destroy", "free">>

shared_incref_locked(s) == [s EXCEPT !.refcnt = @ + 1]

shared_decref_locked(s) ==
    IF s.refcnt = 1 THEN shared_free(s) ELSE [s EXCEPT !.refcnt = @ - 1]

shared_decref_locked_steps(s, h) ==
    IF s.refcnt = 1 THEN shared_free_steps(h) ELSE <<>>

\* Mutant: shared_decref unlocks whatever the new count is.
shared_decref_steps_unlock(s, h) ==
    <<"rwlock_wrlock">> \o shared_decref_locked_steps(s, h) \o <<"rwlock_unlock">>

\* The calls shared_decref makes on registry s, in order.
shared_decref_steps(s, h) ==
    <<"rwlock_wrlock">> \o shared_decref_locked_steps(s, h)
    \o (IF shared_decref_locked(s).refcnt # 0 THEN <<"rwlock_unlock">> ELSE <<>>)

\* if (refcnt) rwlock_unlock(&shared->lock);
shared_decref_unlock(s) == IF s.refcnt # 0 THEN rwlock_unlock(s) ELSE s

\* Attribute dictionary and translation domain: reference counts.
attr_dict_new == [NoDict EXCEPT !.st = "live", !.refcnt = 1]
attr_dict_incref(d) == [d EXCEPT !.refcnt = @ + 1]
attr_dict_decref(d) ==
    IF d.refcnt = 1 THEN [d EXCEPT !.st = "freed", !.refcnt = 0, !.nfree = @ + 1]
    ELSE [d EXCEPT !.refcnt = @ - 1]

xlat_new == [NoXlat EXCEPT !.st = "live", !.refcnt = 1, !.sysref = 1]
xlat_incref(x) == [x EXCEPT !.refcnt = @ + 1]
xlat_decref(x) ==
    IF x.refcnt = 1
    THEN [x EXCEPT !.st = "freed", !.refcnt = 0, !.sysref = @ - 1, !.nfree = @ + 1]
    ELSE [x EXCEPT !.refcnt = @ - 1]

----------------------------------------------------------------------------
\* kdump_new()

NewFail == {"none", "ctx", "xlatctx", "shared", "lock", "dict", "xlat"}

\* The resources kdump_new holds when the step named by f fails.
kdump_new_acq(f) ==
    IF f \in {"ctx", "xlatctx"} THEN alloc_ctx_acq(f)
    ELSE alloc_ctx_acq("none")
         \o (IF f \in {"shared", "lock"} THEN alloc_shared_acq(f)
             ELSE alloc_shared_acq("none"))
         \o (IF f = "xlat" THEN <<"dict">> ELSE <<>>)

\* The error labels of kdump_new, each falling through to the next.
kdump_new_err == <<"xlatctx", "ctx">>
kdump_new_err_dict == <<"lock", "shared">> \o kdump_new_err
kdump_new_err_xlat == <<"dict">> \o kdump_new_err_dict

kdump_new_rel(f) ==
    IF f \in {"ctx", "xlatctx"} THEN alloc_ctx_rel(f)
    ELSE IF f \in {"shared", "lock"} THEN alloc_shared_rel(f) \o kdump_new_err
    ELSE IF f = "dict" THEN kdump_new_err_dict
    ELSE IF f = "xlat" THEN kdump_new_err_xlat
    ELSE <<>>

kdump_new(f) ==
    /\ f \in NewFail
    /\ IF f = "none"
       THEN /\ FreshCtxs # {} /\ FreshObjs # {} /\ FreshHandles # {}
            /\ LET c == Min(FreshCtxs)
                   o == Min(FreshObjs)
                   h == Min(FreshHandles)
               IN /\ ctxs' = [ctxs EXCEPT ![c] =
                                 [alloc_ctx(h) EXCEPT !.st = "live", !.shared = o,
                                                      !.dict = o, !.xlat = o]]
                  /\ axref' = [axref EXCEPT ![h] = 1]
                  /\ shared' = [shared EXCEPT ![o] =
                                   [alloc_shared EXCEPT !.ctx = list_add(c, @)]]
                  /\ dict' = [dict EXCEPT ![o] = attr_dict_new]
                  /\ xlat' = [xlat EXCEPT ![o] =
                                 [xlat_new EXCEPT !.ctx = list_add(c, @)]]
                  /\ ret' = [NoRet EXCEPT !.op = "kdump_new", !.val = c, !.r = o,
                                          !.acq = kdump_new_acq(f) \o <<"dict", "xlat">>]
       ELSE /\ CanFail
            /\ UNCHANGED <<ctxs, axref, shared, dict, xlat>>
            /\ ret' = [NoRet EXCEPT !.op = "kdump_new", !.val = NULL,
                                    !.acq = kdump_new_acq(f),
                                    !.rel = kdump_new_rel(f),
                                    !.steps = IF f \in {"dict", "xlat"}
                                              THEN shared_decref_steps(alloc_shared, {})
                                              ELSE <<>>]
    /\ faults' = IF f = "none" THEN faults ELSE faults + 1
    /\ UNCHANGED <<heap, extref, axext, sysext, handed, ub>>

----------------------------------------------------------------------------
\* kdump_clone(orig)

\* free() of a sequence of pointers, in order.
RECURSIVE FreeSeq(_, _)
FreeSeq(ps, hp) ==
    IF ps = <<>> THEN [heap |-> hp, bad |-> FALSE]
    ELSE LET r == FreeSeq(Tail(ps), Free(hp, Head(ps)))
         IN  [heap |-> r.heap, bad |-> r.bad \/ BadFree(Head(ps))]

\* Mutant: the unwinding loop stops before slot 0 (while (--slot > 0)).
kdump_clone_rollback_skip0(slot, data, hp, size) ==
    FreeSeq([j \in 1 .. (slot - 1) |->
                IF size[slot - j] # 0 THEN data[slot - j] ELSE NullPtr], hp)

\* The unwinding loop of kdump_clone: while (slot-- > 0) if (size[slot]) free.
kdump_clone_rollback(slot, data, hp, size) ==
    FreeSeq([j \in 1 .. slot |->
                IF size[slot - j] # 0 THEN data[slot - j] ELSE NullPtr], hp)

\* The lock on the failure path of the loop: return NULL, with no unlock.
kdump_clone_fail_lock(s) == s

\* The allocation loop of kdump_clone, from index slot on; failAt is the slot
\* whose malloc() fails (PER_CTX_SLOTS: none).
RECURSIVE kdump_clone_loop(_, _, _, _, _, _)
kdump_clone_loop(slot, data, hp, size, failAt, n) ==
    IF slot >= PER_CTX_SLOTS
    THEN [ok |-> TRUE, data |-> data, heap |-> hp, bad |-> FALSE, n |-> n]
    ELSE IF size[slot] = 0
    THEN kdump_clone_loop(slot + 1, data, hp, size, failAt, n)
    ELSE LET p == Malloc(hp, size[slot], failAt = slot)
             d == [data EXCEPT ![slot] = p]
         IN  IF p = NullPtr
             THEN LET r == kdump_clone_rollback(slot, d, hp, size)
                  IN  [ok |-> FALSE, data |-> d, heap |-> r.heap,
                       bad |-> r.bad, n |-> n]
             ELSE kdump_clone_loop(slot + 1, d, Grant(hp, p),
                                   size, failAt, n + 1)

CloneFail == {"none", "ctx", "xlatctx"}

\* kdump_clone from alloc_ctx() through the loop over the slots under the read
\* lock, up to the return NULL of a failure path or to the rwlock_unlock()
\* that follows the loop. f is the step of alloc_ctx that fails, failAt the
\* slot whose malloc() fails (PER_CTX_SLOTS: none).
kdump_clone_begin(orig, f, failAt) ==
    /\ ctxs[orig].st = "live"
    /\ f \in CloneFail
    /\ failAt \in 0 .. PER_CTX_SLOTS
    /\ IF f # "none"
       THEN /\ CanFail
            /\ failAt = PER_CTX_SLOTS
            /\ faults' = faults + 1
            /\ UNCHANGED <<ctxs, axref, shared, heap, ub>>
            /\ ret' = [NoRet EXCEPT !.op = "kdump_clone", !.val = NULL,
                                    !.acq = alloc_ctx_acq(f),
                                    !.rel = alloc_ctx_rel(f)]
       ELSE /\ FreshCtxs # {} /\ FreshHandles # {}
            /\ CanRdLock(ctxs[orig].shared)
            /\ HasMemory(PER_CTX_SLOTS)
            /\ LET c == Min(FreshCtxs)
                   h == Min(FreshHandles)
                   o == ctxs[orig].shared
                   size == shared[o].per_ctx_size
                   r == kdump_clone_loop(0, NoData, heap, size, failAt, 0)
               IN /\ failAt < PER_CTX_SLOTS => CanFail /\ size[failAt] # 0
                  /\ heap' = r.heap
                  /\ ub' = IF r.bad THEN ub \cup {"bad free"} ELSE ub
                  /\ faults' = IF r.ok THEN faults ELSE faults + 1
                  /\ IF r.ok
                     THEN /\ ctxs' = [ctxs EXCEPT ![c] =
                                        [alloc_ctx(h) EXCEPT !.st = "attach",
                                            !.orig = orig, !.data = r.data]]
                          /\ axref' = [axref EXCEPT ![h] = 1]
                          /\ shared' = [shared EXCEPT ![o] =
                                          rwlock_unlock(rwlock_rdlock(@))]
                          /\ ret' = [NoRet EXCEPT !.op = "kdump_clone.unlock",
                                         !.c = orig, !.r = o, !.val = c, !.n = r.n,
                                         !.mode = LockMode(rwlock_rdlock(shared[o]))]
                     ELSE /\ UNCHANGED <<ctxs, axref>>
                          /\ shared' = [shared EXCEPT ![o] =
                                          kdump_clone_fail_lock(rwlock_rdlock(@))]
                          /\ ret' = [NoRet EXCEPT !.op = "kdump_clone",
                                         !.c = orig, !.r = o, !.val = NULL,
                                         !.n = r.n, !.slot = failAt,
                                         !.mode = LockMode(rwlock_rdlock(shared[o])),
                                         !.acq = alloc_ctx_acq("none") \o <<"rdlock">>,
                                         !.rel = <<"xlatctx", "ctx">>]
    /\ UNCHANGED <<dict, xlat, extref, axext, sysext, handed>>

\* Mutant: the clone is put on the list without a reference being taken.
kdump_clone_link_shared_noincref(s, c) == [s EXCEPT !.ctx = list_add(c, @)]

\* ctx->shared = orig->shared; shared_incref_locked(); list_add().
kdump_clone_link_shared(s, c) ==
    [shared_incref_locked(s) EXCEPT !.ctx = list_add(c, @)]

\* Mutant: the dictionary is shared without a reference being taken.
kdump_clone_link_dict_noincref(d) == d

\* ctx->dict = orig->dict; attr_dict_incref().
kdump_clone_link_dict(d) == attr_dict_incref(d)

\* Mutant: the clone takes a reference on the translation domain but is not
\* put on its list.
kdump_clone_link_xlat_nolist(x, c) == xlat_incref(x)

\* Mutant: the translation domain is shared without a reference being taken.
kdump_clone_link_xlat_noincref(x, c) == [x EXCEPT !.ctx = list_add(c, @)]

\* ctx->xlat = orig->xlat; xlat_incref(); list_add().
kdump_clone_link_xlat(x, c) == [xlat_incref(x) EXCEPT !.ctx = list_add(c, @)]

\* The second critical section: rwlock_wrlock() ... rwlock_unlock(), return ctx.
kdump_clone_attach(c) ==
    /\ ctxs[c].st = "attach"
    /\ CanWrLock(ctxs[ctxs[c].orig].shared)
    /\ LET orig == ctxs[c].orig
           o == ctxs[orig].shared
           d == ctxs[orig].dict
           x == ctxs[orig].xlat
       IN /\ ctxs' = [ctxs EXCEPT ![c] = [@ EXCEPT !.st = "live", !.shared = o,
                                             !.dict = d, !.xlat = x, !.orig = NULL]]
          /\ shared' = [shared EXCEPT ![o] =
                rwlock_unlock(kdump_clone_link_shared(rwlock_wrlock(@), c))]
          /\ dict' = [dict EXCEPT ![d] = kdump_clone_link_dict(@)]
          /\ xlat' = [xlat EXCEPT ![x] = kdump_clone_link_xlat(@, c)]
          /\ ret' = [NoRet EXCEPT !.op = "kdump_clone", !.c = orig, !.r = o,
                                  !.val = c,
                                  !.mode = LockMode(rwlock_wrlock(shared[o]))]
    /\ UNCHANGED <<heap, axref, extref, axext, sysext, handed, faults, ub>>

----------------------------------------------------------------------------
\* shared_incref(shared), shared_decref(shared)

shared_incref(o) ==
    /\ CanWrLock(o)
    /\ ExtRefs < MaxExt
    /\ shared' = [shared EXCEPT ![o] =
                     rwlock_unlock(shared_incref_locked(rwlock_wrlock(@)))]
    /\ extref' = [extref EXCEPT ![o] = @ + 1]
    /\ ret' = [NoRet EXCEPT !.op = "shared_incref", !.r = o,
                            !.val = shared'[o].refcnt,
                            !.mode = LockMode(rwlock_wrlock(shared[o]))]
    /\ UNCHANGED <<ctxs, dict, xlat, heap, axref, axext, sysext, handed,
                   faults, ub>>

shared_decref(o, h) ==
    /\ CanWrLock(o)
    /\ extref[o] > 0
    /\ h \subseteq Teardown
    /\ shared[o].refcnt # 1 => h = {}
    /\ shared' = [shared EXCEPT ![o] =
                     shared_decref_unlock(shared_decref_locked(rwlock_wrlock(@)))]
    /\ extref' = [extref EXCEPT ![o] = @ - 1]
    /\ ret' = [NoRet EXCEPT !.op = "shared_decref", !.r = o,
                            !.val = shared'[o].refcnt,
                            !.mode = LockMode(rwlock_wrlock(shared[o])),
                            !.steps = shared_decref_steps(shared[o], h),
                            !.h = h]
    /\ UNCHANGED <<ctxs, dict, xlat, heap, axref, axext, sysext, handed,
                   faults, ub>>

----------------------------------------------------------------------------
\* kdump_get_addrxlat(ctx, axctx, axsys)

\* if (axctx) { *axctx = ctx->xlatctx; addrxlat_ctx_incref(*axctx); }
kdump_get_addrxlat_axctx(ax, h, wantctx) ==
    IF wantctx THEN [ax EXCEPT ![h] = @ + 1] ELSE ax

\* Mutant: the translation system is referenced whether asked for or not.
kdump_get_addrxlat_axsys_always(x, wantsys) == [x EXCEPT !.sysref = @ + 1]

\* if (axsys) { *axsys = ctx->xlat->xlatsys; addrxlat_sys_incref(*axsys); }
kdump_get_addrxlat_axsys(x, wantsys) ==
    IF wantsys THEN [x EXCEPT !.sysref = @ + 1] ELSE x

kdump_get_addrxlat(c, wantctx, wantsys) ==
    /\ ctxs[c].st = "live"
    /\ CanRdLock(ctxs[c].shared)
    /\ GetRefs + (IF wantctx THEN 1 ELSE 0) + (IF wantsys THEN 1 ELSE 0) <= MaxGet
    /\ axref' = kdump_get_addrxlat_axctx(axref, ctxs[c].xlatctx, wantctx)
    /\ axext' = IF wantctx THEN [axext EXCEPT ![ctxs[c].xlatctx] = @ + 1]
                ELSE axext
    /\ sysext' = IF wantsys THEN [sysext EXCEPT ![ctxs[c].xlat] = @ + 1]
                 ELSE sysext
    /\ xlat' = [xlat EXCEPT ![ctxs[c].xlat] = kdump_get_addrxlat_axsys(@, wantsys)]
    /\ shared' = [shared EXCEPT ![ctxs[c].shared] = rwlock_unlock(rwlock_rdlock(@))]
    /\ ret' = [NoRet EXCEPT !.op = "kdump_get_addrxlat", !.c = c,
                            !.r = ctxs[c].shared, !.status = "KDUMP_OK",
                            !.mode = LockMode(rwlock_rdlock(shared[ctxs[c].shared])),
                            !.h = (IF wantctx THEN {"axctx"} ELSE {})
                                  \cup (IF wantsys THEN {"axsys"} ELSE {}),
                            !.acq = <<"rdlock">>, !.rel = <<"rdlock">>]
    /\ UNCHANGED <<ctxs, dict, heap, extref, handed, faults, ub>>

----------------------------------------------------------------------------
\* per_ctx_alloc(shared, sz), per_ctx_free(shared, slot)

FreeSlots(size) == {s \in Slots : size[s] = 0}

\* per_ctx_alloc and per_ctx_free take no lock: their caller holds the lock of
\* the registry in write mode around the call.
per_ctx_caller_lock(s) == rwlock_wrlock(s)

\* free(ctx->data[slot]) for each context of l: the call leaves ctx->data[slot]
\* as it is, a pointer to a buffer that is gone.
per_ctx_free_data(cx, l, slot) ==
    [c \in Ctx |-> IF c \in Range(l)
                   THEN [cx[c] EXCEPT !.data[slot] = Freed(@)]
                   ELSE cx[c]]

\* Unwinding in per_ctx_alloc: walk list.prev from the failed context to the
\* list head, freeing data[slot] of each context on the way.
per_ctx_alloc_rollback(i, l, slot, cx, hp) ==
    FreeSeq([j \in 1 .. (i - 1) |-> cx[l[i - j]].data[slot]], hp)

\* list_for_each_entry: a buffer for the context at position i and on; failAt
\* is the position whose malloc() fails (0: none).
RECURSIVE per_ctx_alloc_loop(_, _, _, _, _, _, _)
per_ctx_alloc_loop(i, l, slot, sz, cx, hp, failAt) ==
    IF i > Len(l)
    THEN [ok |-> TRUE, ctxs |-> cx, heap |-> hp, bad |-> FALSE, n |-> i - 1]
    ELSE LET p == Malloc(hp, sz, failAt = i)
             cx1 == [cx EXCEPT ![l[i]].data[slot] = p]
         IN  IF p = NullPtr
             THEN LET r == per_ctx_alloc_rollback(i, l, slot, cx1, hp)
                  IN  [ok |-> FALSE, ctxs |-> per_ctx_free_data(cx1, SubSeq(l, 1, i - 1), slot),
                       heap |-> r.heap, bad |-> r.bad, n |-> i - 1]
             ELSE per_ctx_alloc_loop(i + 1, l, slot, sz, cx1,
                                     Grant(hp, p), failAt)

\* Mutant: the search takes the highest free slot.
per_ctx_alloc_find_last(slot, size) ==
    IF \A u \in Slots : u >= slot => size[u] # 0 THEN PER_CTX_SLOTS
    ELSE CHOOSE u \in Slots : /\ u >= slot /\ size[u] = 0
                              /\ \A w \in Slots : w > u => size[w] # 0

\* for (slot = ...; slot < PER_CTX_SLOTS; ++slot) if (!size[slot]) break;
\* the value of slot after the loop.
RECURSIVE per_ctx_alloc_find(_, _)
per_ctx_alloc_find(slot, size) ==
    IF slot >= PER_CTX_SLOTS THEN slot
    ELSE IF size[slot] = 0 THEN slot
    ELSE per_ctx_alloc_find(slot + 1, size)

\* The table entry after the loop: sz on success, 0 after the unwinding.
per_ctx_alloc_size(ok, sz) == IF ok THEN sz ELSE 0

per_ctx_alloc(o, sz, failAt) ==
    /\ CanWrLock(o)
    /\ sz \in Sizes
    /\ failAt \in 0 .. Len(shared[o].ctx)
    /\ failAt # 0 => CanFail
    /\ HasMemory(Len(shared[o].ctx))
    /\ faults' = IF failAt # 0 /\ FreeSlots(shared[o].per_ctx_size) # {}
                 THEN faults + 1 ELSE faults
    /\ IF per_ctx_alloc_find(0, shared[o].per_ctx_size) >= PER_CTX_SLOTS
       THEN /\ failAt = 0
            /\ ret' = [NoRet EXCEPT !.op = "per_ctx_alloc", !.r = o, !.sz = sz,
                                    !.val = -1, !.status = "EAGAIN",
                                    !.mode = LockMode(per_ctx_caller_lock(shared[o]))]
            /\ UNCHANGED <<ctxs, shared, heap, handed, ub>>
       ELSE LET slot == per_ctx_alloc_find(0, shared[o].per_ctx_size)
                r == per_ctx_alloc_loop(1, shared[o].ctx, slot, sz, ctxs, heap,
                                        failAt)
            IN /\ ctxs' = r.ctxs
               /\ heap' = r.heap
               /\ ub' = IF r.bad THEN ub \cup {"bad free"} ELSE ub
               /\ shared' = [shared EXCEPT ![o].per_ctx_size[slot] =
                                               per_ctx_alloc_size(r.ok, sz)]
               /\ handed' = IF r.ok THEN [handed EXCEPT ![o][slot] = @ + 1]
                            ELSE handed
               /\ ret' = [NoRet EXCEPT !.op = "per_ctx_alloc", !.r = o, !.sz = sz,
                                       !.slot = slot, !.n = r.n,
                                       !.mode = LockMode(per_ctx_caller_lock(shared[o])),
                                       !.val = IF r.ok THEN slot ELSE -1,
                                       !.status = IF r.ok THEN "" ELSE "ENOMEM"]
    /\ UNCHANGED <<dict, xlat, axref, extref, axext, sysext>>

per_ctx_free(o, slot) ==
    /\ CanWrLock(o)
    /\ slot \in Slots
    /\ handed[o][slot] > 0
    /\ LET l == shared[o].ctx
           r == FreeSeq([i \in 1 .. Len(l) |-> ctxs[l[i]].data[slot]], heap)
       IN /\ heap' = r.heap
          /\ ub' = IF r.bad THEN ub \cup {"bad free"} ELSE ub
          /\ ctxs' = per_ctx_free_data(ctxs, l, slot)
    /\ shared' = [shared EXCEPT ![o].per_ctx_size[slot] = 0]
    /\ handed' = [handed EXCEPT ![o][slot] = @ - 1]
    /\ ret' = [NoRet EXCEPT !.op = "per_ctx_free", !.r = o, !.slot = slot,
                            !.mode = LockMode(per_ctx_caller_lock(shared[o]))]
    /\ UNCHANGED <<dict, xlat, axref, extref, axext, sysext, faults>>

----------------------------------------------------------------------------
\* Destruction of a context (kdump_free): detach from the translation domain
\* and release it, release the dictionary, detach from the registry and
\* release it, free every non-null slot buffer, the coordinate-system handle,
\* the error channel and the context.

kdump_free(c, h) ==
    /\ ctxs[c].st = "live"
    /\ CanWrLock(ctxs[c].shared)
    /\ ~Cloning(c)
    /\ h \subseteq Teardown
    /\ shared[ctxs[c].shared].refcnt # 1 => h = {}
    /\ LET o == ctxs[c].shared
           d == ctxs[c].dict
           x == ctxs[c].xlat
           r == FreeSeq([i \in 1 .. PER_CTX_SLOTS |-> ctxs[c].data[i - 1]], heap)
       IN /\ xlat' = [xlat EXCEPT ![x] =
                         xlat_decref([@ EXCEPT !.ctx = list_del(c, @)])]
          /\ dict' = [dict EXCEPT ![d] = attr_dict_decref(@)]
          /\ shared' = [shared EXCEPT ![o] =
                shared_decref_unlock(shared_decref_locked(
                    [rwlock_wrlock(@) EXCEPT !.ctx = list_del(c, @)]))]
          /\ heap' = r.heap
          /\ ub' = IF r.bad THEN ub \cup {"bad free"} ELSE ub
          /\ axref' = [axref EXCEPT ![ctxs[c].xlatctx] = @ - 1]
          /\ ctxs' = [ctxs EXCEPT ![c] =
                         [NoCtx EXCEPT !.st = "freed", !.err = "clean",
                                       !.shared = o, !.dict = d, !.xlat = x]]
          /\ ret' = [NoRet EXCEPT !.op = "kdump_free", !.c = c, !.r = o,
                                  !.mode = LockMode(rwlock_wrlock(shared[o])),
                                  !.steps = shared_decref_steps(shared[o], h),
                                  !.h = h]
    /\ UNCHANGED <<extref, axext, sysext, handed, faults>>

----------------------------------------------------------------------------
\* kdump_strerror(status)

\* The enumerators of kdump_status that the switch names.
KdumpStatus == {"KDUMP_OK", "KDUMP_ERR_SYSTEM", "KDUMP_ERR_NOTIMPL",
                "KDUMP_ERR_NODATA", "KDUMP_ERR_CORRUPT", "KDUMP_ERR_INVALID",
                "KDUMP_ERR_NOKEY", "KDUMP_ERR_EOF", "KDUMP_ERR_BUSY",
                "KDUMP_ERR_ADDRXLAT"}

\* Values of the argument that are none of the enumerators.
OtherStatus == {"-1", "10", "255"}

\* Mutant: the case of KDUMP_ERR_EOF is missing from the switch.
kdump_strerror_no_eof(status) ==
    CASE status = "KDUMP_OK" -> "Success"
      [] status = "KDUMP_ERR_SYSTEM" -> "OS error"
      [] status = "KDUMP_ERR_NOTIMPL" -> "Unimplemented feature"
      [] status = "KDUMP_ERR_NODATA" -> "Data is not stored in the dump file"
      [] status = "KDUMP_ERR_CORRUPT" -> "Corrupted file data"
      [] status = "KDUMP_ERR_INVALID" -> "Invalid value"
      [] status = "KDUMP_ERR_NOKEY" -> "No such attribute key"
      [] status = "KDUMP_ERR_BUSY" -> "Too many pending requests"
      [] status = "KDUMP_ERR_ADDRXLAT" -> "Address translation error"
      [] OTHER -> "Unknown error"

kdump_strerror(status) ==
    CASE status = "KDUMP_OK" -> "Success"
      [] status = "KDUMP_ERR_SYSTEM" -> "OS error"
      [] status = "KDUMP_ERR_NOTIMPL" -> "Unimplemented feature"
      [] status = "KDUMP_ERR_NODATA" -> "Data is not stored in the dump file"
      [] status = "KDUMP_ERR_CORRUPT" -> "Corrupted file data"
      [] status = "KDUMP_ERR_INVALID" -> "Invalid value"
      [] status = "KDUMP_ERR_NOKEY" -> "No such attribute key"
      [] status = "KDUMP_ERR_EOF" -> "Unexpected EOF"
      [] status = "KDUMP_ERR_BUSY" -> "Too many pending requests"
      [] status = "KDUMP_ERR_ADDRXLAT" -> "Address translation error"
      [] OTHER -> "Unknown error"

\* A call of kdump_strerror: it returns the string and touches nothing.
kdump_strerror_call(status) ==
    /\ status \in KdumpStatus \cup OtherStatus
    /\ ret' = [NoRet EXCEPT !.op = "kdump_strerror", !.status = status,
                            !.text = kdump_strerror(status)]
    /\ UNCHANGED <<ctxs, shared, dict, xlat, heap, axref, extref, axext,
                   sysext, handed, faults, ub>>

----------------------------------------------------------------------------
Init ==
    /\ ctxs = [c \in Ctx |-> NoCtx]
    /\ shared = [o \in Obj |-> NoShared]
    /\ dict = [o \in Obj |-> NoDict]
    /\ xlat = [o \in Obj |-> NoXlat]
    /\ heap = 0
    /\ axref = [h \in Handle |-> 0]
    /\ extref = [o \in Obj |-> 0]
    /\ axext = [h \in Handle |-> 0]
    /\ sysext = [o \in Obj |-> 0]
    /\ handed = [o \in Obj |-> [s \in Slots |-> 0]]
    /\ faults = 0
    /\ ub = {}
    /\ ret = NoRet

Step ==
    \/ \E f \in NewFail : kdump_new(f)
    \/ \E c \in Ctx, f \in CloneFail, failAt \in 0 .. PER_CTX_SLOTS :
          kdump_clone_begin(c, f, failAt)
    \/ \E c \in Ctx : kdump_clone_attach(c)
    \/ \E o \in Obj : shared_incref(o)
    \/ \E o \in Obj, h \in SUBSET Teardown : shared_decref(o, h)
    \/ \E c \in Ctx, wantctx \in BOOLEAN, wantsys \in BOOLEAN :
          kdump_get_addrxlat(c, wantctx, wantsys)
    \/ \E o \in Obj, sz \in Sizes, failAt \in 0 .. MaxCtx :
          per_ctx_alloc(o, sz, failAt)
    \/ \E o \in Obj, slot \in Slots : per_ctx_free(o, slot)
    \/ \E c \in Ctx, h \in SUBSET Teardown : kdump_free(c, h)
    \/ \E status \in KdumpStatus \cup OtherStatus : kdump_strerror_call(status)

\* Nothing is known of a run once it has executed undefined behaviour.
Next == ub = {} /\ Step

Spec == Init /\ [][Next]_vars

\* The life cycle of the handles: every call but those of the slot allocator
\* (the extension modules that reserve slots are not loaded).
StepLife ==
    \/ \E f \in NewFail : kdump_new(f)
    \/ \E c \in Ctx, f \in CloneFail, failAt \in 0 .. PER_CTX_SLOTS :
          kdump_clone_begin(c, f, failAt)
    \/ \E c \in Ctx : kdump_clone_attach(c)
    \/ \E o \in Obj : shared_incref(o)
    \/ \E o \in Obj : shared_decref(o, {})
    \/ \E c \in Ctx, wantctx \in BOOLEAN, wantsys \in BOOLEAN :
          kdump_get_addrxlat(c, wantctx, wantsys)
    \/ \E c \in Ctx : kdump_free(c, {})

SpecLife == Init /\ [][ub = {} /\ StepLife]_vars

\* The slot allocator with its callers: contexts are created and cloned while
\* slots are reserved and released.
StepSlots ==
    \/ \E f \in NewFail : kdump_new(f)
    \/ \E c \in Ctx, f \in CloneFail, failAt \in 0 .. PER_CTX_SLOTS :
          kdump_clone_begin(c, f, failAt)
    \/ \E c \in Ctx : kdump_clone_attach(c)
    \/ \E o \in Obj, sz \in Sizes, failAt \in 0 .. MaxCtx :
          per_ctx_alloc(o, sz, failAt)
    \/ \E o \in Obj, slot \in Slots : per_ctx_free(o, slot)

SpecSlots == Init /\ [][ub = {} /\ StepSlots]_vars

\* The same callers when every request is for a buffer of at least one byte.
StepSlotsPos ==
    \/ \E f \in NewFail : kdump_new(f)
    \/ \E c \in Ctx, f \in CloneFail, failAt \in 0 .. PER_CTX_SLOTS :
          kdump_clone_begin(c, f, failAt)
    \/ \E c \in Ctx : kdump_clone_attach(c)
    \/ \E o \in Obj, sz \in Sizes \ {0}, failAt \in 0 .. MaxCtx :
          per_ctx_alloc(o, sz, failAt)
    \/ \E o \in Obj, slot \in Slots : per_ctx_free(o, slot)

SpecSlotsPos == Init /\ [][ub = {} /\ StepSlotsPos]_vars

\* Handles are created, cloned and destroyed while extension modules reserve
\* one-byte slots; the reservations themselves succeed.
StepDestroy ==
    \/ \E f \in NewFail : kdump_new(f)
    \/ \E c \in Ctx, f \in CloneFail, failAt \in 0 .. PER_CTX_SLOTS :
          kdump_clone_begin(c, f, failAt)
    \/ \E c \in Ctx : kdump_clone_attach(c)
    \/ \E o \in Obj : per_ctx_alloc(o, 1, 0)
    \/ \E c \in Ctx : kdump_free(c, {})

SpecDestroy == Init /\ [][ub = {} /\ StepDestroy]_vars

\* The life cycle of the handles of a dump file that has been opened: the
\* registry has any of its cleanup hooks and caches set when it is destroyed.
StepTeardown ==
    \/ \E f \in NewFail : kdump_new(f)
    \/ \E c \in Ctx, f \in CloneFail, failAt \in 0 .. PER_CTX_SLOTS :
          kdump_clone_begin(c, f, failAt)
    \/ \E c \in Ctx : kdump_clone_attach(c)
    \/ \E o \in Obj : shared_incref(o)
    \/ \E o \in Obj, h \in SUBSET Teardown : shared_decref(o, h)
    \/ \E c \in Ctx, h \in SUBSET Teardown : kdump_free(c, h)

SpecTeardown == Init /\ [][ub = {} /\ StepTeardown]_vars

\* Every call, on behalf of callers that reserve one-byte slots.
StepLock ==
    \/ \E f \in NewFail : kdump_new(f)
    \/ \E c \in Ctx, f \in CloneFail, failAt \in 0 .. PER_CTX_SLOTS :
          kdump_clone_begin(c, f, failAt)
    \/ \E c \in Ctx : kdump_clone_attach(c)
    \/ \E o \in Obj : shared_incref(o)
    \/ \E o \in Obj : shared_decref(o, {})
    \/ \E c \in Ctx, wantctx \in BOOLEAN, wantsys \in BOOLEAN :
          kdump_get_addrxlat(c, wantctx, wantsys)
    \/ \E o \in Obj, failAt \in 0 .. MaxCtx : per_ctx_alloc(o, 1, failAt)
    \/ \E o \in Obj, slot \in Slots : per_ctx_free(o, slot)
    \/ \E c \in Ctx : kdump_free(c, {})

SpecLock == Init /\ [][ub = {} /\ StepLock]_vars

\* Status codes are turned into text at any point of the life of the handles.
StepStrerror ==
    \/ \E f \in NewFail : kdump_new(f)
    \/ \E c \in Ctx, f \in CloneFail, failAt \in 0 .. PER_CTX_SLOTS :
          kdump_clone_begin(c, f, failAt)
    \/ \E c \in Ctx : kdump_clone_attach(c)
    \/ \E c \in Ctx, wantctx \in BOOLEAN, wantsys \in BOOLEAN :
          kdump_get_addrxlat(c, wantctx, wantsys)
    \/ \E c \in Ctx : kdump_free(c, {})
    \/ \E status \in KdumpStatus \cup OtherStatus : kdump_strerror_call(status)

SpecStrerror == Init /\ [][ub = {} /\ StepStrerror]_vars

----------------------------------------------------------------------------
\* Properties.

LiveCtxOf(o) == {c \in Ctx : ctxs[c].st = "live" /\ ctxs[c].shared = o}
FreedCtxOf(o) == {c \in Ctx : ctxs[c].st = "freed" /\ ctxs[c].shared = o}

\* C1: the reference count of a registry equals the number of live contexts
\* on its list plus the references taken with shared_incref and not yet given
\* back, the list holds exactly the live contexts that point to the registry,
\* and a registry that a live context points to is live with a count above 0.
C1_RefcntCountsHolders ==
    /\ \A o \in Obj : shared[o].st = "live" =>
          /\ shared[o].refcnt = Len(shared[o].ctx) + extref[o]
          /\ Range(shared[o].ctx) = LiveCtxOf(o)
          /\ Cardinality(LiveCtxOf(o)) = Len(shared[o].ctx)
    /\ \A c \in Ctx : ctxs[c].st = "live" =>
          /\ shared[ctxs[c].shared].st = "live"
          /\ shared[ctxs[c].shared].refcnt > 0

\* A registry that was cloned, acquired explicitly, and lost one context.
C1_Witness ==
    \E o \in Obj : /\ shared[o].st = "live"
                   /\ extref[o] = 1
                   /\ shared[o].refcnt = 2
                   /\ FreedCtxOf(o) # {}

\* C2: per_ctx_alloc is all-or-nothing: on success the table entry of the
\* returned slot is the requested size and every attached context has a live
\* buffer of that size there; on failure the slot table, the slot arrays of
\* the attached contexts and the set of live buffers are as before the call.
C2_AllocAllOrNothing ==
    [][ret'.op = "per_ctx_alloc" =>
        LET o == ret'.r
            l == shared[o].ctx
        IN  IF ret'.val >= 0
            THEN /\ shared'[o].per_ctx_size[ret'.val] = ret'.sz
                 /\ \A c \in Range(l) : ctxs'[c].data[ret'.val] = BufPtr(ret'.sz)
            ELSE /\ shared'[o].per_ctx_size = shared[o].per_ctx_size
                 /\ \A c \in Range(l) : ctxs'[c].data = ctxs[c].data
                 /\ heap' = heap]_vars

\* The slot array of context c agrees with the slot table of registry o: a
\* live buffer of the recorded size where the entry is nonzero, nothing else.
SlotsMatch(c, o) ==
    \A s \in Slots :
        ctxs[c].data[s] = IF shared[o].per_ctx_size[s] # 0
                          THEN BufPtr(shared[o].per_ctx_size[s])
                          ELSE NullPtr

\* C3: when kdump_clone returns a context (it has just released the write
\* lock), the context has a buffer at exactly the slots whose table entry is
\* nonzero, of the size recorded there.
C3_CloneAtomic ==
    ret.op = "kdump_clone" /\ ret.val # NULL => SlotsMatch(ret.val, ret.r)

\* C4: every context on the list of a registry has a live buffer of the
\* recorded size at every slot whose table entry is nonzero.
C4_AttachedHaveBuffers ==
    \A o \in Obj : shared[o].st = "live" =>
        \A c \in Range(shared[o].ctx) : \A s \in Slots :
            shared[o].per_ctx_size[s] # 0 =>
                ctxs[c].data[s] = BufPtr(shared[o].per_ctx_size[s])

\* C5: per_ctx_free(shared, slot) leaves the pointer at slot of every attached
\* context null and the table entry of slot 0, and changes no other slot.
C5_FreeNullsSlot ==
    [][ret'.op = "per_ctx_free" =>
        LET o == ret'.r
            s == ret'.slot
        IN  /\ shared'[o].per_ctx_size[s] = 0
            /\ \A u \in Slots \ {s} :
                  shared'[o].per_ctx_size[u] = shared[o].per_ctx_size[u]
            /\ \A c \in Range(shared[o].ctx) :
                  /\ ctxs'[c].data[s] = NullPtr
                  /\ \A u \in Slots \ {s} : ctxs'[c].data[u] = ctxs[c].data[u]]_vars

\* C6: a kdump_clone that fails returns no context and leaves the live
\* buffers, the translation handles, the contexts, the lists and the three
\* reference counts as they were before the call.
C6_CloneFailureRollsBack ==
    [][ret'.op = "kdump_clone" /\ ret'.val = NULL =>
        /\ heap' = heap
        /\ axref' = axref
        /\ ctxs' = ctxs
        /\ dict' = dict
        /\ xlat' = xlat
        /\ \A o \in Obj : /\ shared'[o].ctx = shared[o].ctx
                          /\ shared'[o].refcnt = shared[o].refcnt]_vars

\* A clone failed at a slot after a buffer had been granted for an earlier one.
C6_Witness == ret.op = "kdump_clone" /\ ret.val = NULL /\ ret.n > 0

\* C7: no call returns with the lock of a live registry held, so the lock is
\* free for a writer whenever no call is inside the registry.
C7_NoLockHeldAfterReturn ==
    \A o \in Obj : shared[o].st = "live" =>
        shared[o].lock.rd = 0 /\ ~shared[o].lock.wr

\* C8: a successful kdump_clone(orig) returns a context with orig's registry,
\* dictionary and translation domain, each count one higher and the context
\* at the head of both lists, with an error channel and a translation handle
\* of its own, and orig as it was.
C8_CloneShares ==
    [][ret'.op = "kdump_clone" /\ ret'.val # NULL =>
        LET c == ret'.val
            orig == ret'.c
            o == ctxs[orig].shared
            d == ctxs[orig].dict
            x == ctxs[orig].xlat
        IN  /\ ctxs'[c].st = "live"
            /\ ctxs'[c].shared = o /\ ctxs'[c].dict = d /\ ctxs'[c].xlat = x
            /\ shared'[o].refcnt = shared[o].refcnt + 1
            /\ dict'[d].refcnt = dict[d].refcnt + 1
            /\ xlat'[x].refcnt = xlat[x].refcnt + 1
            /\ shared'[o].ctx = <<c>> \o shared[o].ctx
            /\ xlat'[x].ctx = <<c>> \o xlat[x].ctx
            /\ c \notin Range(shared[o].ctx) /\ c \notin Range(xlat[x].ctx)
            /\ ctxs'[c].err = "init"
            /\ ctxs'[c].xlatctx # NULL
            /\ \A e \in Ctx \ {c} : ctxs'[e].xlatctx # ctxs'[c].xlatctx
            /\ ctxs'[orig] = ctxs[orig]]_vars

\* A clone returned with a buffer of its own for a reserved slot.
C8_Witness ==
    /\ ret.op = "kdump_clone" /\ ret.val # NULL
    /\ \E s \in Slots : ctxs[ret.val].data[s].p = "buf"

\* The contexts that own translation handle h.
OwnersOf(h) == {c \in Ctx : ctxs[c].st \in {"attach", "live"} /\ ctxs[c].xlatctx = h}

\* C9: of the handles created from one kdump_new, while any is left the
\* registry, the dictionary and the translation domain are live and count the
\* handles left (the registry also the explicit acquires); when none is left
\* each has been destroyed, once; nothing is destroyed twice; and no slot
\* buffer or translation handle of a destroyed context stays allocated.
C9_DestroyedOnceAtLast ==
    /\ \A o \in Obj : shared[o].st # "none" =>
          /\ shared[o].nfree <= 1 /\ dict[o].nfree <= 1 /\ xlat[o].nfree <= 1
          /\ IF LiveCtxOf(o) # {}
             THEN /\ shared[o].st = "live" /\ dict[o].st = "live"
                  /\ xlat[o].st = "live"
                  /\ shared[o].nfree = 0 /\ dict[o].nfree = 0 /\ xlat[o].nfree = 0
                  /\ shared[o].refcnt = Cardinality(LiveCtxOf(o)) + extref[o]
                  /\ dict[o].refcnt = Cardinality(LiveCtxOf(o))
                  /\ xlat[o].refcnt = Cardinality(LiveCtxOf(o))
             ELSE /\ dict[o].st = "freed" /\ dict[o].nfree = 1
                  /\ xlat[o].st = "freed" /\ xlat[o].nfree = 1
                  /\ extref[o] = 0 => shared[o].st = "freed" /\ shared[o].nfree = 1
    /\ \A c \in Ctx : ctxs[c].st = "live" =>
          /\ ctxs[c].dict = ctxs[c].shared /\ ctxs[c].xlat = ctxs[c].shared
    /\ \A h \in Handle : axref[h] = axext[h] + Cardinality(OwnersOf(h))
    /\ (\A c \in Ctx : ctxs[c].st \in {"unused", "freed"}) => heap = 0

\* Every handle of one kdump_new has been destroyed, the last one just now,
\* after a slot had been reserved for them.
C9_Witness ==
    /\ ret.op = "kdump_free"
    /\ \E o \in Obj : /\ Cardinality(FreedCtxOf(o)) = MaxCtx
                      /\ shared[o].st = "freed"
                      /\ \E s \in Slots : shared[o].per_ctx_size[s] # 0

\* C10: a kdump_new that fails has released everything it had acquired, in
\* the reverse order of acquisition.
C10_NewFailureReleasesAll ==
    ret.op = "kdump_new" /\ ret.val = NULL => ret.rel = Reverse(ret.acq)

\* C11: per_ctx_alloc that finds a free table entry works on the lowest such
\* index, and when it succeeds returns that index with the requested size
\* recorded there; when no entry is free it returns -1 with EAGAIN and leaves
\* the slot table and every slot array as they were.
C11_FirstFitOrEagain ==
    [][ret'.op = "per_ctx_alloc" =>
        LET o == ret'.r
            free == FreeSlots(shared[o].per_ctx_size)
        IN  IF free = {}
            THEN /\ ret'.val = -1 /\ ret'.status = "EAGAIN"
                 /\ shared' = shared /\ ctxs' = ctxs /\ heap' = heap
            ELSE /\ ret'.status # "EAGAIN"
                 /\ ret'.slot \in free
                 /\ \A u \in free : ret'.slot <= u
                 /\ ret'.val \in {ret'.slot, -1}
                 /\ ret'.val >= 0 =>
                       shared'[o].per_ctx_size[ret'.val] = ret'.sz]_vars

\* A request has been refused because every table entry is in use.
C11_Witness ==
    /\ ret.op = "per_ctx_alloc" /\ ret.status = "EAGAIN"
    /\ \A s \in Slots : shared[ret.r].per_ctx_size[s] # 0

\* C12: a step that changes the reference count, the context list or the slot
\* table of a registry that callers already hold, or the reference count or
\* the context list of its translation domain, is made by a call that holds
\* the lock of that registry in write mode; a call that holds it in read mode
\* changes none of them.
C12_MutationsUnderWriteLock ==
    [][\A o \in Obj :
          (/\ shared[o].st = "live"
           /\ \/ shared'[o].refcnt # shared[o].refcnt
              \/ shared'[o].ctx # shared[o].ctx
              \/ shared'[o].per_ctx_size # shared[o].per_ctx_size
              \/ xlat'[o].refcnt # xlat[o].refcnt
              \/ xlat'[o].ctx # xlat[o].ctx)
          => ret'.r = o /\ ret'.mode = "wr"]_vars

\* A clone has been attached to a registry that also has an explicit holder.
C12_Witness ==
    /\ ret.op = "kdump_clone" /\ ret.val # NULL /\ ret.mode = "wr"
    /\ extref[ret.r] > 0

\* C13: kdump_strerror answers every status code: each of the ten enumerators
\* with a non-empty string that no other enumerator gets and that is not the
\* fallback, any other value with "Unknown error"; the call changes nothing.
C13_StrerrorTotal ==
    [][ret'.op = "kdump_strerror" =>
        /\ ret'.text # ""
        /\ ret'.status \in KdumpStatus =>
              /\ ret'.text # "Unknown error"
              /\ \A t \in KdumpStatus \ {ret'.status} :
                    kdump_strerror(t) # ret'.text
        /\ ret'.status \notin KdumpStatus => ret'.text = "Unknown error"
        /\ UNCHANGED <<ctxs, shared, dict, xlat, heap, axref, extref, axext,
                       sysext, handed, faults, ub>>]_vars

\* A value that is no enumerator has been answered while a context is live.
C13_Witness ==
    /\ ret.op = "kdump_strerror" /\ ret.status \in OtherStatus
    /\ \E c \in Ctx : ctxs[c].st = "live"

\* The positions of step x in the sequence st.
StepsAt(st, x) == {i \in DOMAIN st : st[i] = x}

\* C14: a shared_decref takes the lock once and the lock is unlocked exactly
\* once: last thing by shared_decref when the new count is not zero, first
\* thing by shared_free, before the lock is destroyed and the registry freed,
\* when it is zero; shared_decref returns the new count, which is 0 exactly
\* when the registry has been destroyed.
C14_UnlockedOnce ==
    ret.op = "shared_decref" =>
        LET st == ret.steps
            s == shared[ret.r]
        IN  /\ StepsAt(st, "rwlock_wrlock") = {1}
            /\ Cardinality(StepsAt(st, "rwlock_unlock")) = 1
            /\ \A i \in StepsAt(st, "rwlock_unlock") :
                  \A j \in StepsAt(st, "rwlock_destroy") \cup StepsAt(st, "free") :
                      i < j
            /\ ret.val = s.refcnt
            /\ ret.val = 0 <=> s.st = "freed"
            /\ ret.val = 0 <=> StepsAt(st, "free") # {}
            /\ ret.val = 0 => st[2] = "rwlock_unlock" /\ s.lock.st = "destroyed"
            /\ ret.val # 0 => /\ st = <<"rwlock_wrlock", "rwlock_unlock">>
                              /\ s.lock = [st |-> "init", rd |-> 0, wr |-> FALSE]

\* A shared_decref has given back the last reference of a registry that has
\* its hooks and caches set.
C14_Witness == ret.op = "shared_decref" /\ ret.val = 0 /\ ret.h = Teardown

\* The rank of a teardown step of shared_free in the order it must have.
TeardownRank(x) ==
    CASE x = "ops->cleanup" -> 1
      [] x = "arch_ops->cleanup" -> 2
      [] x = "cache_free" -> 3
      [] x = "fcache_decref" -> 4
      [] x = "rwlock_destroy" -> 5
      [] x = "free" -> 6
      [] OTHER -> 0

\* C15: when a registry is destroyed, the cleanup hook of the format, that of
\* the architecture, cache_free and fcache_decref run in this order, each
\* exactly when its field is set, then the lock is destroyed, then the memory
\* is freed; each of these steps runs at most once.
C15_TeardownOrder ==
    StepsAt(ret.steps, "free") # {} =>
        LET st == ret.steps
        IN  /\ \A i, j \in DOMAIN st :
                  i < j /\ TeardownRank(st[i]) > 0 /\ TeardownRank(st[j]) > 0
                  => TeardownRank(st[i]) < TeardownRank(st[j])
            /\ StepsAt(st, "ops->cleanup") # {} <=> "ops" \in ret.h
            /\ StepsAt(st, "arch_ops->cleanup") # {} <=> "arch_ops" \in ret.h
            /\ StepsAt(st, "cache_free") # {} <=> "cache" \in ret.h
            /\ StepsAt(st, "fcache_decref") # {} <=> "fcache" \in ret.h
            /\ StepsAt(st, "rwlock_destroy") # {}
            /\ st[Len(st)] = "free"

\* The last context of a registry with all hooks and caches set has been
\* destroyed, and the registry with it.
C15_Witness ==
    /\ ret.op = "kdump_free" /\ ret.h = Teardown
    /\ StepsAt(ret.steps, "free") # {}
    /\ shared[ret.r].st = "freed"

\* How many times c occurs in the list l.
Count(c, l) == Cardinality({i \in DOMAIN l : l[i] = c})

\* C16: a context that kdump_new or kdump_clone has returned and that has not
\* been destroyed is once on the list of the registry its shared link points
\* to and on the list of no other registry, and once on the list of the
\* translation domain its xlat link points to and on no other.
C16_OnOneListOnce ==
    \A c \in Ctx : ctxs[c].st = "live" =>
        /\ \A o \in Obj : Count(c, shared[o].ctx) =
                               IF o = ctxs[c].shared THEN 1 ELSE 0
        /\ \A x \in Obj : Count(c, xlat[x].ctx) =
                               IF x = ctxs[c].xlat THEN 1 ELSE 0

\* A clone lives on after the context it was cloned from has been destroyed.
C16_Witness ==
    /\ ret.op = "kdump_free"
    /\ \E c \in Ctx : /\ ctxs[c].st = "live" /\ c # ret.c
                      /\ ctxs[c].shared = ret.r
                      /\ shared[ret.r].ctx = <<c>>

C18_NoDoubleFree == "bad free" \notin ub

\* C19: a slot index that per_ctx_alloc has returned and that has not been
\* passed to per_ctx_free has a nonzero table entry, and has been returned to
\* one caller only.
C19_SlotsExclusive ==
    \A o \in Obj : \A s \in Slots :
        /\ handed[o][s] <= 1
        /\ handed[o][s] = 1 => shared[o].per_ctx_size[s] # 0

====
